---- MODULE Spec2Model ----
(***************************************************************************)
(* Model of the Nemu seller-agent provisioner (nemu/provisioner/           *)
(* provision.sh, kept as src/unnamed/part_002) running on one host next to *)
(* the systemd service manager, the agents it launched and the registry.   *)
(* Every provisioning process is one run of the script; each command of    *)
(* the script is one step, so runs interleave between commands.            *)
(***************************************************************************)
EXTENDS Integers, Sequences, FiniteSets, TLC

\* ------------------------------------------------------------------ bounds
\* Highest valid TCP port (65535 on the host), scaled down.
PortMax == 4001
\* Size N of the port range [basePort, basePort + N) the specification names.
RangeN == 1
\* Provisioning runs the operators start in one behaviour.
MaxStarts == 2
\* Longest replacement value handed to sed, in characters.
MaxValueLen == 2
MaxBoxStarts == 3

\* --------------------------------------------------------------- constants
\* GATEWAY_PORT_START default.
GATEWAY_PORT_START == 4000

\* Provisioning processes (shells running provision.sh) and seller ids.
Runs == {"r1", "r2"}
Sellers == {"s1", "s2"}
\* Outcomes of `openssl rand -hex 16`.
Tokens == {"t1", "t2"}

\* The registry's answer to GET /agent/seller/<id>: s2's record lacks storeSlug.
Registry ==
  [s \in Sellers |->
     IF s = "s1" THEN [storeName |-> "Toko Kita", storeSlug |-> "toko-kita",
                       category |-> "Fashion", walletAddress |-> "0xabc"]
                 ELSE [storeName |-> "Toko Dua"]]

\* `jq -r '.key'`: the value, or the literal text null when the key is absent.
JqR(json, key) == IF key \in DOMAIN json THEN json[key] ELSE "null"
\* `jq -r '.key // ""'`: the value, or the empty text when the key is absent.
JqAlt(json, key) == IF key \in DOMAIN json THEN json[key] ELSE ""

\* The {{NAME}} placeholders of the persona template nemu/workspace/SOUL.md.
SoulWorkspace ==
  {"SELLER_NAME", "STORE_NAME", "STORE_CATEGORY", "STORE_DESCRIPTION",
   "STORE_SLUG", "INVITE_CODE", "IS_FOUNDING_SELLER", "WALLET_ADDRESS"}
\* The placeholders of the other persona template of the repository (the
\* SOUL.md kept as src/unnamed/part_001).
SoulLiveDemo ==
  {"SELLER_NAME", "STORE_NAME", "STORE_CATEGORY", "STORE_DESCRIPTION",
   "STORE_LINK", "INVITE_CODE", "IS_FOUNDING_SELLER", "ACTIVE_HOURS",
   "WALLET_ADDRESS"}
\* The persona templates a checkout of the repository can hold.
SoulTemplates == {SoulWorkspace, SoulLiveDemo}
\* The placeholders of nemu/workspace/HEARTBEAT.md.
HEARTBEAT_MD == {"SELLER_NAME", "STORE_NAME"}

\* Placeholders of the SKILL.md files under nemu/workspace/skills (the
\* seller tokens among them, and tokens the agent fills at run time).
SKILL_MD ==
  {"STORE_NAME", "STORE_LINK", "SELLER_NAME", "ACTIVE_HOURS", "AGENT_API_KEY",
   "SELLER_ID", "ORDER_ID", "PAYSPONGE_API_KEY", "WALLET_ADDRESS"}

\* The names the sed of step 3 substitutes in SOUL.md.
SoulSedNames ==
  {"SELLER_NAME", "STORE_NAME", "STORE_SLUG", "STORE_CATEGORY",
   "STORE_DESCRIPTION", "INVITE_CODE", "IS_FOUNDING_SELLER", "WALLET_ADDRESS",
   "STORE_LINK"}
\* The names the two sed -i of step 3 substitute in HEARTBEAT.md.
HeartbeatSedNames == {"SELLER_NAME", "STORE_NAME"}

\* sed -e "s/{{N}}/value/g" for every N of names, applied to a text with the
\* placeholders text: the placeholders left in the output. A placeholder sed
\* has no expression for passes through as it is.
Sed(text, names) == text \ names

\* A copy that passes the text through the seller substitutions.
CpRendered(text) == Sed(text, SoulSedNames)
\* cp: the copy holds the text of its source.
Cp(text) == text

\* Files of a seller's workspace that do not exist yet.
NoFile ==
  [st |-> "none", name |-> "", slug |-> "", category |-> "", wallet |-> "",
   left |-> {}]
NoConfig == [st |-> "none", port |-> 0, token |-> ""]
NoWorkspace ==
  [dir |-> FALSE, skills |-> FALSE, skillFiles |-> {}, soul |-> NoFile,
   heartbeat |-> NoFile, config |-> NoConfig]
\* The registry before any status PATCH for a seller.
NoReport == [agentStatus |-> "", agentPort |-> 0]
\* No run has ended yet.
NoRun == [seller |-> "", outcome |-> ""]
\* A service systemd is not running.
Inactive ==
  [state |-> "inactive", port |-> 0, bound |-> FALSE, stale |-> FALSE, procs |-> 0]
\* A unit without Restart=: a service whose process exited stays failed.
RestartNo ==
  [state |-> "failed", port |-> 0, bound |-> FALSE, stale |-> FALSE, procs |-> 0]
\* A service whose process exited: systemd waits RestartSec, then launches it.
Restarting ==
  [state |-> "auto-restart", port |-> 0, bound |-> FALSE, stale |-> FALSE,
   procs |-> 0]

VARIABLES
  pc,            \* per run: the command the script executes next
  SELLER_ID,     \* per run: $1
  STORE_NAME,    \* per run: .storeName extracted by jq
  STORE_SLUG,    \* per run: .storeSlug extracted by jq
  STORE_CATEGORY, \* per run: .category extracted by jq
  WALLET_ADDRESS, \* per run: .walletAddress extracted by jq
  GATEWAY_PORT,  \* per run: the port probed / assigned
  log,           \* per run: the commands that had an effect, in order
  failedAt,      \* per run: the command at which the run failed
  patches,       \* per run: status PATCH requests the run has sent
  fs,            \* per seller: the workspace under AGENTS_BASE_DIR/<sellerId>
  unit,          \* per seller: /etc/systemd/system/nemu-agent-<id>.service
  unitFiles,     \* the unit files the runs wrote: name and the seller it serves
  svc,           \* per seller: the service as systemd runs it
  reported,      \* per seller: status PATCHes the registry received
  lsofOk,        \* the host has a working lsof
  SOUL_MD,       \* the placeholders of ${NEMU_DIR}/workspace/SOUL.md
  render,        \* one sed invocation: its expressions, its input, its output
  box,           \* the agent container: environment, entrypoint position, files
  web,           \* the node agent: the request in hand, its calls and responses
  ENV_UNSET,     \* the required environment variables the operator left unset
  started,       \* provisioning runs started so far
  lastRun,       \* the seller and outcome (done, stopped) of the run for a seller that ended last
  lastAlloc      \* the port the last allocation returned; 0 once a port was freed

vars == <<pc, SELLER_ID, STORE_NAME, STORE_SLUG, STORE_CATEGORY,
          WALLET_ADDRESS, GATEWAY_PORT, log, failedAt,
          patches, fs, unit, unitFiles, svc, reported, lsofOk, SOUL_MD, render,
          box, web, ENV_UNSET, started, lastRun, lastAlloc>>

runVars ==
  <<pc, SELLER_ID, STORE_NAME, STORE_SLUG, STORE_CATEGORY, WALLET_ADDRESS,
    GATEWAY_PORT, log, failedAt, patches>>
hostVars == <<fs, unit, unitFiles, svc, reported>>
\* What is installed on the host before the runs and stays as it is, and
\* what the provisioning commands have no part in.
setup == <<lsofOk, SOUL_MD, render, box, web, ENV_UNSET>>
\* Everything of the provisioning host.
provisionVars ==
  <<runVars, hostVars, lsofOk, SOUL_MD, ENV_UNSET, started, lastRun,
    lastAlloc>>

\* No sed invocation is under way.
NoRender == [st |-> "none"]

\* No container was created.
NoBox == [pc |-> "none"]
\* No node agent runs.
NoWeb == [pc |-> "none"]

\* The host before the first provisioning run.
InitHost ==
  /\ pc = [r \in Runs |-> "idle"]
  /\ SELLER_ID = [r \in Runs |-> ""]
  /\ STORE_NAME = [r \in Runs |-> ""]
  /\ STORE_SLUG = [r \in Runs |-> ""]
  /\ STORE_CATEGORY = [r \in Runs |-> ""]
  /\ WALLET_ADDRESS = [r \in Runs |-> ""]
  /\ GATEWAY_PORT = [r \in Runs |-> 0]
  /\ log = [r \in Runs |-> <<>>]
  /\ failedAt = [r \in Runs |-> ""]
  /\ patches = [r \in Runs |-> 0]
  /\ fs = [s \in Sellers |-> NoWorkspace]
  /\ unit = [s \in Sellers |-> "absent"]
  /\ unitFiles = {}
  /\ svc = [s \in Sellers |-> Inactive]
  /\ reported = [s \in Sellers |-> NoReport]
  /\ started = 0
  /\ lastRun = NoRun
  /\ lastAlloc = 0

Init ==
  /\ InitHost
  /\ lsofOk \in BOOLEAN
  /\ SOUL_MD \in SoulTemplates
  /\ render = NoRender
  /\ box = NoBox
  /\ web = NoWeb
  /\ ENV_UNSET = {}

\* The variables the header of provision.sh lists as required and that have
\* no default in the script.
RequiredEnv ==
  {"NEMU_PROVISION_KEY", "MINIMAX_API_KEY", "NEON_DATABASE_URL",
   "WA_ACCESS_TOKEN", "WA_PHONE_NUMBER_ID"}

\* The operator starts runs with all required variables set, or with one of
\* them unset.
InitEnv ==
  /\ InitHost
  /\ lsofOk = TRUE
  /\ SOUL_MD = SoulWorkspace
  /\ render = NoRender
  /\ box = NoBox
  /\ web = NoWeb
  /\ ENV_UNSET \in {{}} \cup {{v} : v \in RequiredEnv}

\* set -u: a command that expands one of names runs only if all are set;
\* otherwise the shell prints "unbound variable" and exits 1 before the
\* command and its redirection.
Nounset(names) == names \cap ENV_UNSET = {}

\* ------------------------------------------------------- script control flow
\* A script that launches the service (step 6) before it generates the
\* config (step 4).
NextStepLaunchBeforeConfig(k) ==
  CASE k = "fetch" -> "probe"
    [] k = "probe" -> "mkdir"
    [] k = "mkdir" -> "skills"
    [] k = "skills" -> "soul"
    [] k = "soul" -> "heartbeat"
    [] k = "heartbeat" -> "install"
    [] k = "install" -> "unit"
    [] k = "unit" -> "reload"
    [] k = "reload" -> "enable"
    [] k = "enable" -> "start"
    [] k = "start" -> "config"
    [] k = "config" -> "report"
    [] k = "report" -> "done"

\* The commands of provision.sh in the order the script lists them.
NextStep(k) ==
  CASE k = "fetch" -> "probe"
    [] k = "probe" -> "mkdir"
    [] k = "mkdir" -> "skills"
    [] k = "skills" -> "soul"
    [] k = "soul" -> "heartbeat"
    [] k = "heartbeat" -> "config"
    [] k = "config" -> "install"
    [] k = "install" -> "unit"
    [] k = "unit" -> "reload"
    [] k = "reload" -> "enable"
    [] k = "enable" -> "start"
    [] k = "start" -> "report"
    [] k = "report" -> "done"

\* A script without `set -e`: the command after a failed one runs.
ErrExitOff(k) == NextStep(k)
\* `set -euo pipefail`: a command that exits non-zero ends the script.
ErrExit(k) == "failed"

Running(r) == pc[r] \notin {"idle", "done", "failed", "aborted"}

\* Command k of run r succeeded.
Advance(r, k) ==
  /\ pc' = [pc EXCEPT ![r] = NextStep(k)]
  /\ log' = [log EXCEPT ![r] = Append(@, k)]
  /\ lastRun' = IF NextStep(k) = "done"
                  THEN [seller |-> SELLER_ID[r], outcome |-> "done"]
                  ELSE lastRun
  /\ UNCHANGED failedAt

\* Command k of run r exited non-zero; wrote tells whether it left an effect.
Fail(r, k, wrote) ==
  /\ pc' = [pc EXCEPT ![r] = ErrExit(k)]
  /\ log' = [log EXCEPT ![r] = IF wrote THEN Append(@, k) ELSE @]
  /\ failedAt' = [failedAt EXCEPT ![r] = k]
  /\ lastRun' = [seller |-> SELLER_ID[r], outcome |-> "stopped"]

\* ------------------------------------------------------------ host queries
\* A process listens on TCP port p.
Listening(p) ==
  \E s \in Sellers : svc[s].state = "active" /\ svc[s].bound /\ svc[s].port = p

\* Exit status 0 of `lsof -Pi :p -sTCP:LISTEN -t`: a listener was found. A
\* missing lsof or a port lsof rejects exits non-zero like "no listener".
Lsof(p) == lsofOk /\ p <= PortMax /\ Listening(p)

\* systemd forks ExecStart (Type=simple: the service is active from then on);
\* the agent reads config.toml of its workspace, port 0 standing for a config
\* it cannot use.
Launch(s) ==
  [state |-> "active",
   port |-> IF fs[s].config.st = "rendered" THEN fs[s].config.port ELSE 0,
   bound |-> FALSE, stale |-> FALSE, procs |-> 1]

\* A service manager that forks ExecStart on every start request.
SystemctlStartSpawning(s) == [Launch(s) EXCEPT !.procs = svc[s].procs + 1]
\* systemctl start: a no-op returning 0 on a service that is active, a launch
\* otherwise.
SystemctlStart(s) == IF svc[s].state = "active" THEN svc[s] ELSE Launch(s)

\* ------------------------------------------------------------------ actions
\* ./provision.sh <seller_id>: a new process; an empty argument is a usage error.
Start(r, id) ==
  /\ ~Running(r)
  /\ started < MaxStarts
  /\ started' = started + 1
  /\ SELLER_ID' = [SELLER_ID EXCEPT ![r] = id]
  /\ STORE_NAME' = [STORE_NAME EXCEPT ![r] = ""]
  /\ STORE_SLUG' = [STORE_SLUG EXCEPT ![r] = ""]
  /\ STORE_CATEGORY' = [STORE_CATEGORY EXCEPT ![r] = ""]
  /\ WALLET_ADDRESS' = [WALLET_ADDRESS EXCEPT ![r] = ""]
  /\ GATEWAY_PORT' = [GATEWAY_PORT EXCEPT ![r] = 0]
  /\ log' = [log EXCEPT ![r] = <<>>]
  /\ patches' = [patches EXCEPT ![r] = 0]
  /\ IF id = ""
       THEN /\ pc' = [pc EXCEPT ![r] = "failed"]
            /\ failedAt' = [failedAt EXCEPT ![r] = "usage"]
       ELSE /\ pc' = [pc EXCEPT ![r] = "fetch"]
            /\ failedAt' = [failedAt EXCEPT ![r] = ""]
  /\ UNCHANGED <<hostVars, setup, lastRun, lastAlloc>>

\* Step 1: curl -sf the seller record, extract the fields with jq -r.
FetchSellerInfo(r) ==
  /\ pc[r] = "fetch"
  /\ \E ok \in IF Nounset({"NEMU_PROVISION_KEY"}) THEN BOOLEAN ELSE {FALSE} :
       IF ok
         THEN /\ STORE_NAME' = [STORE_NAME EXCEPT ![r] =
                                  JqR(Registry[SELLER_ID[r]], "storeName")]
              /\ STORE_SLUG' = [STORE_SLUG EXCEPT ![r] =
                                  JqR(Registry[SELLER_ID[r]], "storeSlug")]
              /\ STORE_CATEGORY' = [STORE_CATEGORY EXCEPT ![r] =
                                  JqR(Registry[SELLER_ID[r]], "category")]
              /\ WALLET_ADDRESS' = [WALLET_ADDRESS EXCEPT ![r] =
                                  JqAlt(Registry[SELLER_ID[r]], "walletAddress")]
              /\ GATEWAY_PORT' = [GATEWAY_PORT EXCEPT ![r] = GATEWAY_PORT_START]
              /\ Advance(r, "fetch")
         ELSE /\ Fail(r, "fetch", FALSE)
              /\ UNCHANGED <<STORE_NAME, STORE_SLUG, STORE_CATEGORY,
                             WALLET_ADDRESS, GATEWAY_PORT>>
  /\ UNCHANGED <<SELLER_ID, patches, hostVars, setup, started, lastAlloc>>

\* Step 2: one evaluation of the while condition and, if true, the loop body.
AllocatePort(r) ==
  /\ pc[r] = "probe"
  /\ IF Lsof(GATEWAY_PORT[r])
       THEN /\ GATEWAY_PORT' = [GATEWAY_PORT EXCEPT ![r] = @ + 1]
            /\ UNCHANGED <<pc, log, failedAt, lastRun, lastAlloc>>
       ELSE /\ Advance(r, "probe")
            /\ lastAlloc' = GATEWAY_PORT[r]
            /\ UNCHANGED GATEWAY_PORT
  /\ UNCHANGED <<SELLER_ID, STORE_NAME, STORE_SLUG, STORE_CATEGORY,
                 WALLET_ADDRESS, patches, hostVars, setup,
                 started>>

\* The shell variables of a run.
ShellVars ==
  <<SELLER_ID, STORE_NAME, STORE_SLUG, STORE_CATEGORY, WALLET_ADDRESS,
    GATEWAY_PORT>>
\* What a command other than the status PATCH leaves alone in its own run.
Locals == <<ShellVars, patches>>

\* Step 3: mkdir -p "$WORKSPACE_DIR/workspace/skills".
MakeWorkspaceDir(r) ==
  /\ pc[r] = "mkdir"
  /\ \E ok \in BOOLEAN :
       IF ok
         THEN /\ fs' = [fs EXCEPT ![SELLER_ID[r]].dir = TRUE]
              /\ Advance(r, "mkdir")
         ELSE /\ Fail(r, "mkdir", FALSE)
              /\ UNCHANGED fs
  /\ UNCHANGED <<Locals, unit, unitFiles, svc, reported, setup, started, lastAlloc>>

\* Step 3: cp -r the skill definitions into the workspace.
CopySkills(r) ==
  /\ pc[r] = "skills"
  /\ \E ok \in BOOLEAN :
       IF ok
         THEN /\ fs' = [fs EXCEPT ![SELLER_ID[r]].skills = TRUE,
                                   ![SELLER_ID[r]].skillFiles = Cp(SKILL_MD)]
              /\ Advance(r, "skills")
         ELSE /\ Fail(r, "skills", FALSE)
              /\ UNCHANGED fs
  /\ UNCHANGED <<Locals, unit, unitFiles, svc, reported, setup, started, lastAlloc>>

\* Step 3: sed ... SOUL.md > workspace/SOUL.md. The shell truncates the target
\* before sed runs, so a failing sed leaves an empty file.
RenderSoul(r) ==
  /\ pc[r] = "soul"
  /\ \E ok \in BOOLEAN :
       IF ok
         THEN /\ fs' = [fs EXCEPT ![SELLER_ID[r]].soul =
                          [st |-> "rendered", name |-> STORE_NAME[r],
                           slug |-> STORE_SLUG[r],
                           category |-> STORE_CATEGORY[r],
                           wallet |-> WALLET_ADDRESS[r],
                           left |-> Sed(SOUL_MD, SoulSedNames)]]
              /\ Advance(r, "soul")
         ELSE /\ fs' = [fs EXCEPT ![SELLER_ID[r]].soul =
                          [st |-> "empty", name |-> "", slug |-> "",
                           category |-> "", wallet |-> "", left |-> {}]]
              /\ Fail(r, "soul", TRUE)
  /\ UNCHANGED <<Locals, unit, unitFiles, svc, reported, setup, started, lastAlloc>>

\* Step 3: cp HEARTBEAT.md, then two sed -i on the copy. A failing cp leaves
\* the file as it was, a failing sed -i leaves the unrendered template.
RenderHeartbeat(r) ==
  /\ pc[r] = "heartbeat"
  /\ \E out \in {"ok", "cpfail", "sedfail"} :
       CASE out = "ok" ->
              /\ fs' = [fs EXCEPT ![SELLER_ID[r]].heartbeat =
                          [st |-> "rendered", name |-> STORE_NAME[r], slug |-> "",
                           category |-> "", wallet |-> "",
                           left |-> Sed(HEARTBEAT_MD, HeartbeatSedNames)]]
              /\ Advance(r, "heartbeat")
         [] out = "cpfail" ->
              /\ Fail(r, "heartbeat", FALSE)
              /\ UNCHANGED fs
         [] out = "sedfail" ->
              /\ fs' = [fs EXCEPT ![SELLER_ID[r]].heartbeat =
                          [st |-> "template", name |-> "", slug |-> "",
                           category |-> "", wallet |-> "",
                           left |-> HEARTBEAT_MD]]
              /\ Fail(r, "heartbeat", TRUE)
  /\ UNCHANGED <<Locals, unit, unitFiles, svc, reported, setup, started, lastAlloc>>

\* The service after config.toml of its workspace was rewritten: a running
\* instance keeps the configuration it read when it was launched.
Outdated(s) ==
  IF svc[s].state = "active" THEN [svc EXCEPT ![s].stale = TRUE] ELSE svc

\* Step 4: WA_VERIFY_TOKEN=$(openssl rand -hex 16); sed ... > config.toml.
GenerateConfig(r) ==
  /\ pc[r] = "config"
  /\ \E out \in IF Nounset(RequiredEnv \ {"NEMU_PROVISION_KEY"})
                  THEN Tokens \cup {"opensslfail", "sedfail"}
                  ELSE {"opensslfail", "nounset"} :
       CASE out \in Tokens ->
              /\ fs' = [fs EXCEPT ![SELLER_ID[r]].config =
                          [st |-> "rendered", port |-> GATEWAY_PORT[r],
                           token |-> out]]
              /\ svc' = Outdated(SELLER_ID[r])
              /\ Advance(r, "config")
         [] out \in {"opensslfail", "nounset"} ->
              /\ Fail(r, "config", FALSE)
              /\ UNCHANGED <<fs, svc>>
         [] out = "sedfail" ->
              /\ fs' = [fs EXCEPT ![SELLER_ID[r]].config =
                          [st |-> "empty", port |-> 0, token |-> ""]]
              /\ svc' = Outdated(SELLER_ID[r])
              /\ Fail(r, "config", TRUE)
  /\ UNCHANGED <<Locals, unit, unitFiles, reported, setup, started, lastAlloc>>

\* Step 5: the zeroclaw binary is present, or curl | bash installs it.
InstallZeroclaw(r) ==
  /\ pc[r] = "install"
  /\ \E ok \in BOOLEAN :
       IF ok THEN Advance(r, "install") ELSE Fail(r, "install", FALSE)
  /\ UNCHANGED <<Locals, hostVars, setup, started, lastAlloc>>

\* A service name that is the same for every seller.
ServiceNameShared(r) == "nemu-agent"
\* A service name that also carries the port assigned in the run.
ServiceNamePerPort(r) ==
  "nemu-agent-" \o SELLER_ID[r] \o "-" \o ToString(GATEWAY_PORT[r])
\* SERVICE_NAME="nemu-agent-${SELLER_ID}".
ServiceName(r) == "nemu-agent-" \o SELLER_ID[r]

\* Step 6: cat > /etc/systemd/system/nemu-agent-<id>.service: the redirection
\* replaces a file of that name, and the unit serves the run's seller
\* (WorkingDirectory, ZEROCLAW_CONFIG and ZEROCLAW_WORKSPACE of its workspace).
WriteUnit(r) ==
  /\ pc[r] = "unit"
  /\ \E ok \in BOOLEAN :
       IF ok
         THEN /\ unit' = [unit EXCEPT ![SELLER_ID[r]] =
                            IF @ = "absent" THEN "written" ELSE @]
              /\ unitFiles' =
                   {u \in unitFiles : u.name # ServiceName(r)}
                     \cup {[name |-> ServiceName(r), seller |-> SELLER_ID[r]]}
              /\ Advance(r, "unit")
         ELSE /\ Fail(r, "unit", FALSE)
              /\ UNCHANGED <<unit, unitFiles>>
  /\ UNCHANGED <<Locals, fs, svc, reported, setup, started, lastAlloc>>

\* Step 6: systemctl daemon-reload loads every unit file written so far.
DaemonReload(r) ==
  /\ pc[r] = "reload"
  /\ \E ok \in BOOLEAN :
       IF ok
         THEN /\ unit' = [s \in Sellers |->
                            IF unit[s] = "written" THEN "loaded" ELSE unit[s]]
              /\ Advance(r, "reload")
         ELSE /\ Fail(r, "reload", FALSE)
              /\ UNCHANGED unit
  /\ UNCHANGED <<Locals, fs, unitFiles, svc, reported, setup, started, lastAlloc>>

\* Step 6: systemctl enable "$SERVICE_NAME".
EnableService(r) ==
  /\ pc[r] = "enable"
  /\ \E ok \in BOOLEAN :
       IF ok
         THEN /\ unit' = [unit EXCEPT ![SELLER_ID[r]] = "enabled"]
              /\ Advance(r, "enable")
         ELSE /\ Fail(r, "enable", FALSE)
              /\ UNCHANGED unit
  /\ UNCHANGED <<Locals, fs, unitFiles, svc, reported, setup, started, lastAlloc>>

\* Step 6: systemctl start "$SERVICE_NAME": a no-op returning 0 on a service
\* that is active, a launch otherwise.
StartService(r) ==
  /\ pc[r] = "start"
  /\ \E ok \in BOOLEAN :
       IF ok
         THEN /\ svc' = [svc EXCEPT ![SELLER_ID[r]] = SystemctlStart(SELLER_ID[r])]
              /\ Advance(r, "start")
         ELSE /\ Fail(r, "start", FALSE)
              /\ UNCHANGED svc
  /\ UNCHANGED <<Locals, fs, unit, unitFiles, reported, setup, started, lastAlloc>>

\* A request body that always names the first port of the range.
StatusBodyBasePort(r) ==
  [agentStatus |-> "active", agentPort |-> GATEWAY_PORT_START]
\* The JSON body of the PATCH (agentServerId, the host name, left out).
StatusBody(r) == [agentStatus |-> "active", agentPort |-> GATEWAY_PORT[r]]

\* Step 7: curl -sf -X PATCH .../status, sent once; -f turns an HTTP error
\* into a non-zero exit.
ReportStatus(r) ==
  /\ pc[r] = "report"
  /\ patches' = [patches EXCEPT ![r] = @ + 1]
  /\ \E ok \in IF Nounset({"NEMU_PROVISION_KEY"}) THEN BOOLEAN ELSE {FALSE} :
       IF ok
         THEN /\ reported' = [reported EXCEPT ![SELLER_ID[r]] = StatusBody(r)]
              /\ Advance(r, "report")
         ELSE /\ Fail(r, "report", FALSE)
              /\ UNCHANGED reported
  /\ UNCHANGED <<ShellVars, fs, unit, unitFiles, svc, setup, started, lastAlloc>>

\* The operator terminates the process between two commands.
Abort(r) ==
  /\ Running(r)
  /\ pc' = [pc EXCEPT ![r] = "aborted"]
  /\ failedAt' = [failedAt EXCEPT ![r] = pc[r]]
  /\ lastRun' = [seller |-> SELLER_ID[r], outcome |-> "stopped"]
  /\ UNCHANGED <<Locals, log, hostVars, setup, started, lastAlloc>>

\* ----------------------------------------------- agents and service manager
\* A launched agent binds its gateway port; it exits when it cannot, or when
\* its config is unusable.
AgentBind(s) ==
  /\ svc[s].state = "active"
  /\ ~svc[s].bound
  /\ IF svc[s].port # 0 /\ svc[s].port <= PortMax /\ ~Listening(svc[s].port)
       THEN svc' = [svc EXCEPT ![s].bound = TRUE]
       ELSE svc' = [svc EXCEPT ![s] = Restarting]
  /\ UNCHANGED <<runVars, fs, unit, unitFiles, reported, setup, started, lastRun, lastAlloc>>

\* A running agent process dies; its port is free until it is restarted.
AgentCrash(s) ==
  /\ svc[s].state = "active"
  /\ lastAlloc' = IF svc[s].bound THEN 0 ELSE lastAlloc
  /\ svc' = [svc EXCEPT ![s] = Restarting]
  /\ UNCHANGED <<runVars, fs, unit, unitFiles, reported, setup, started, lastRun>>

\* Restart=always, RestartSec=5: systemd launches the service again.
AutoRestart(s) ==
  /\ svc[s].state = "auto-restart"
  /\ svc' = [svc EXCEPT ![s] = Launch(s)]
  /\ UNCHANGED <<runVars, fs, unit, unitFiles, reported, setup, started, lastRun, lastAlloc>>

\* One command of the script, or the operator's abort.
RunStep(r) ==
  \/ FetchSellerInfo(r)
  \/ AllocatePort(r)
  \/ MakeWorkspaceDir(r)
  \/ CopySkills(r)
  \/ RenderSoul(r)
  \/ RenderHeartbeat(r)
  \/ GenerateConfig(r)
  \/ InstallZeroclaw(r)
  \/ WriteUnit(r)
  \/ DaemonReload(r)
  \/ EnableService(r)
  \/ StartService(r)
  \/ ReportStatus(r)
  \/ Abort(r)

\* The service manager and the agents it runs.
HostStep ==
  \E s \in Sellers : AgentBind(s) \/ AgentCrash(s) \/ AutoRestart(s)

\* The operator provisions one seller at a time: every run is started after
\* the previous one has ended, any number of times, for any seller.
Next ==
  \/ \E id \in Sellers \cup {""} : Start("r1", id)
  \/ RunStep("r1")
  \/ HostStep

Spec == Init /\ [][Next]_vars

\* Two operators provision at the same time: each starts one run, and the
\* commands of the two runs interleave.
NextPar ==
  \/ \E r \in Runs, id \in Sellers \cup {""} : pc[r] = "idle" /\ Start(r, id)
  \/ \E r \in Runs : RunStep(r)
  \/ HostStep

SpecPar == Init /\ [][NextPar]_vars

\* One run at a time, in an environment that may lack a required variable.
SpecEnv == InitEnv /\ [][Next]_vars

\* The commands that involve the host alone (step 5 with the binary present):
\* the shell runs each of them to its end.
LocalStep(r) ==
  \/ AllocatePort(r)
  \/ MakeWorkspaceDir(r)
  \/ CopySkills(r)
  \/ RenderSoul(r)
  \/ RenderHeartbeat(r)
  \/ GenerateConfig(r)
  \/ InstallZeroclaw(r)
  \/ WriteUnit(r)
  \/ DaemonReload(r)
  \/ EnableService(r)
  \/ StartService(r)

\* One run at a time under the scheduling the script guarantees: a local
\* command is always completed. The two curl calls to the registry carry no
\* --max-time or --connect-timeout, so they return only when the registry
\* answers or the connection breaks: nothing makes FetchSellerInfo or
\* ReportStatus happen, and nothing makes the operator abort.
SpecLive == Spec /\ WF_vars(LocalStep("r1"))

\* One run at a time next to a service manager that does its part: with
\* Restart=always and RestartSec=5 systemd launches a service whose process
\* exited, every time (a restart every 5 s stays under the start limit of 5
\* starts in 10 s).
SpecRestart == Spec /\ \A s \in Sellers : WF_vars(AutoRestart(s))

\* ------------------------------------------------------- sed substitution
\* A text is a sequence of pieces: single characters and {{NAME}} tokens.
Ph(n) == "{{" \o n \o "}}"

\* The -e expressions of the sed that renders SOUL.md in provision.sh, in the
\* order of the script, each with the delimiter it is written with.
ProvisionSedChain ==
  << [name |-> "SELLER_NAME", delim |-> "/"],
     [name |-> "STORE_NAME", delim |-> "/"],
     [name |-> "STORE_SLUG", delim |-> "/"],
     [name |-> "STORE_CATEGORY", delim |-> "/"],
     [name |-> "STORE_DESCRIPTION", delim |-> "|"],
     [name |-> "INVITE_CODE", delim |-> "/"],
     [name |-> "IS_FOUNDING_SELLER", delim |-> "/"],
     [name |-> "WALLET_ADDRESS", delim |-> "/"],
     [name |-> "STORE_LINK", delim |-> "|"] >>

\* The -e expressions of the sed -i of the container entrypoint.
EntrypointSedChain ==
  << [name |-> "SELLER_NAME", delim |-> "/"],
     [name |-> "STORE_NAME", delim |-> "/"],
     [name |-> "STORE_SLUG", delim |-> "/"],
     [name |-> "STORE_CATEGORY", delim |-> "/"],
     [name |-> "STORE_DESCRIPTION", delim |-> "/"],
     [name |-> "INVITE_CODE", delim |-> "/"],
     [name |-> "IS_FOUNDING_SELLER", delim |-> "/"],
     [name |-> "WALLET_ADDRESS", delim |-> "/"],
     [name |-> "ACTIVE_HOURS", delim |-> "/"],
     [name |-> "STORE_LINK", delim |-> "|"] >>

SedChainOf(script) ==
  IF script = "provision" THEN ProvisionSedChain ELSE EntrypointSedChain

\* The names a chain substitutes.
ChainNames(chain) == {chain[i].name : i \in 1..Len(chain)}

\* A sed with the same expressions written in the opposite order.
Reverse(chain) == [i \in 1..Len(chain) |-> chain[Len(chain) + 1 - i]]

\* The replacement part of s<d>{{N}}<d>VALUE<d>g as sed reads it, VALUE having
\* been pasted in by the shell: an unescaped delimiter ends the replacement
\* early and what follows is no valid flag; a backslash takes the next
\* character literally, and as the last character of VALUE it escapes the
\* closing delimiter, leaving the command unterminated; & stands for the
\* matched text, here the token tok.
RECURSIVE SedRhs(_, _, _)
SedRhs(value, d, tok) ==
  IF value = <<>> THEN [ok |-> TRUE, text |-> <<>>]
  ELSE
    LET c == Head(value)
        rest == Tail(value)
    IN  IF c = d THEN [ok |-> FALSE, text |-> <<>>]
        ELSE IF c = "\\"
          THEN IF rest = <<>> THEN [ok |-> FALSE, text |-> <<>>]
               ELSE LET r == SedRhs(Tail(rest), d, tok)
                    IN  [ok |-> r.ok, text |-> <<Head(rest)>> \o r.text]
        ELSE LET r == SedRhs(rest, d, tok)
             IN  [ok |-> r.ok,
                  text |-> (IF c = "&" THEN <<tok>> ELSE <<c>>) \o r.text]

\* Every occurrence of the piece tok in text replaced by the pieces of by
\* (the g flag).
RECURSIVE ReplaceAll(_, _, _)
ReplaceAll(text, tok, by) ==
  IF text = <<>> THEN <<>>
  ELSE (IF Head(text) = tok THEN by ELSE <<Head(text)>>)
         \o ReplaceAll(Tail(text), tok, by)

\* sed reads all its expressions before it touches the input: one it cannot
\* parse makes it exit non-zero without output.
ChainParses(chain, val) ==
  \A i \in 1..Len(chain) :
    SedRhs(val[chain[i].name], chain[i].delim, Ph(chain[i].name)).ok

\* The expressions applied to the text one after the other, in their order.
RECURSIVE SedApply(_, _, _)
SedApply(text, chain, val) ==
  IF chain = <<>> THEN text
  ELSE LET e == Head(chain)
       IN  SedApply(
             ReplaceAll(text, Ph(e.name),
                        SedRhs(val[e.name], e.delim, Ph(e.name)).text),
             Tail(chain), val)

\* sed -e ... -e ... template: exit status and output.
SedScript(text, chain, val) ==
  IF ChainParses(chain, val)
    THEN [ok |-> TRUE, text |-> SedApply(text, chain, val)]
    ELSE [ok |-> FALSE, text |-> <<>>]

\* The characters a value is made of: a letter, the characters sed treats
\* specially, and the token of a placeholder substituted later in the chain.
ValueChars == {"k", "&", "/", "|", "\\", Ph("INVITE_CODE")}

\* The values the registry (storeName, description) or the container's
\* environment can supply.
RECURSIVE ValuesUpTo(_)
ValuesUpTo(n) ==
  IF n = 0 THEN {<<>>}
  ELSE LET shorter == ValuesUpTo(n - 1)
       IN  shorter \cup {Append(v, c) : v \in shorter, c \in ValueChars}

Values == ValuesUpTo(MaxValueLen) \ {<<>>}

\* Templates: the lines of SOUL.md that name the store, and of HEARTBEAT.md.
Templates ==
  { << Ph("SELLER_NAME"), "k", Ph("STORE_NAME"), Ph("STORE_DESCRIPTION"),
       Ph("INVITE_CODE"), Ph("STORE_NAME") >>,
    << Ph("SELLER_NAME"), "k", Ph("STORE_NAME") >> }

\* The shell variables the expressions paste in: SELLER_NAME and STORE_NAME
\* both hold .storeName, STORE_LINK is the store URL ending in the slug.
SedValues(storeName, description) ==
  [n \in ChainNames(EntrypointSedChain) |->
     CASE n \in {"SELLER_NAME", "STORE_NAME"} -> storeName
       [] n = "STORE_DESCRIPTION" -> description
       [] n = "STORE_LINK" -> <<"https://nemu-ai.com/toko/", "k">>
       [] OTHER -> <<"k">>]

\* A sed invocation about to run, for any template and any values.
InitRender ==
  /\ InitHost
  /\ lsofOk = TRUE
  /\ SOUL_MD = SoulWorkspace
  /\ \E script \in {"provision", "entrypoint"}, tpl \in Templates,
        storeName \in Values, description \in Values :
       render = [st |-> "ready", script |-> script, tpl |-> tpl,
                 val |-> SedValues(storeName, description)]
  /\ box = NoBox
  /\ web = NoWeb
  /\ ENV_UNSET = {}

\* sed runs.
RunSed ==
  /\ render.st = "ready"
  /\ render' = [st |-> "done", script |-> render.script, tpl |-> render.tpl,
                val |-> render.val,
                out |-> SedScript(render.tpl, SedChainOf(render.script),
                                  render.val)]
  /\ UNCHANGED <<provisionVars, box, web>>

NextRender == RunSed

SpecRender == InitRender /\ [][NextRender]_vars

\* --------------------------------------------------- container entrypoint
\* ${VAR:-default}: the default when VAR is unset or empty.
Default(v, d) == IF v \in {"unset", ""} THEN d ELSE v
\* ${VAR:+word}: word when VAR is set and not empty, nothing otherwise.
Alt(v, word) == IF v \in {"unset", ""} THEN "" ELSE word
\* The same default for a text given as pieces (unset and empty are both <<>>).
DefaultText(v, d) == IF v = <<>> THEN d ELSE v

\* A backend selection by ${NEON_DATABASE_URL+postgres}: set, even if empty.
MemoryBackendIfSet(url) == IF url = "unset" THEN "sqlite" ELSE "postgres"
\* MEMORY_BACKEND="${NEON_DATABASE_URL:+postgres}", then ":-sqlite".
MemoryBackend(url) == Default(Alt(url, "postgres"), "sqlite")

\* /nemu-workspace/SOUL.md of the image: the placeholders in file order.
SoulText(tpl) ==
  IF tpl = SoulWorkspace
    THEN << Ph("SELLER_NAME"), Ph("STORE_NAME"), Ph("STORE_CATEGORY"),
            Ph("STORE_DESCRIPTION"), "https://nemu-ai.com/toko/",
            Ph("STORE_SLUG"), Ph("INVITE_CODE"), Ph("IS_FOUNDING_SELLER"),
            Ph("WALLET_ADDRESS") >>
    ELSE << Ph("SELLER_NAME"), Ph("STORE_NAME"), Ph("STORE_CATEGORY"),
            Ph("STORE_DESCRIPTION"), Ph("STORE_LINK"), Ph("INVITE_CODE"),
            Ph("IS_FOUNDING_SELLER"), Ph("ACTIVE_HOURS"),
            Ph("WALLET_ADDRESS") >>
\* /nemu-workspace/HEARTBEAT.md.
HeartbeatText == << Ph("SELLER_NAME"), "k", Ph("STORE_NAME") >>

\* The shell variables of the entrypoint after the defaults were applied.
EntrypointValues(env) ==
  [n \in ChainNames(EntrypointSedChain) |->
     CASE n = "SELLER_NAME" -> <<"Toko Demo Nemu">>
       [] n = "STORE_NAME" -> DefaultText(env.STORE_NAME, <<"Toko Demo Nemu">>)
       [] n = "STORE_SLUG" -> <<"toko-demo-nemu">>
       [] n = "STORE_CATEGORY" ->
            DefaultText(env.STORE_CATEGORY, <<"Fashion ", "&", " Pakaian">>)
       [] n = "STORE_DESCRIPTION" -> <<"Toko online terpercaya di Nemu AI">>
       [] n = "INVITE_CODE" -> <<"NEMU2025">>
       [] n = "IS_FOUNDING_SELLER" -> <<"true">>
       [] n = "WALLET_ADDRESS" -> <<"0x0000000000000000000000000000000000000000">>
       [] n = "ACTIVE_HOURS" -> <<"08:00-22:00">>
       [] n = "STORE_LINK" -> <<"https://nemu-ai.com/toko/", "toko-demo-nemu">>]

\* The environments a container is created with.
Environments ==
  [NEON_DATABASE_URL : {"unset", "", "postgres://neon"},
   PORT : {"unset", "8080"},
   STORE_NAME : {<<>>, <<"k">>, <<"k", "/", "k">>},
   STORE_CATEGORY : {<<>>, <<"k">>}]

\* No file yet in /zeroclaw-data.
NoText == <<"(no file)">>
\* blocks: how many [storage.provider.config] blocks the file holds.
NoBoxConfig == [st |-> "none", port |-> "", backend |-> "", blocks |-> 0]
\* No start of the container has completed yet.
NoSnapshot == [st |-> "none"]
\* The persona, heartbeat, skill files and config as they are on disk.
Snapshot(b) ==
  [st |-> "taken", soul |-> b.soul, heartbeat |-> b.heartbeat,
   skills |-> b.skills, config |-> b.config]

\* A write that leaves the blocks of the old file after the new text.
CatKeep(old, new) == [new EXCEPT !.blocks = old.blocks]
\* cat > file: the file holds the new text and nothing of the old.
CatTruncate(old, new) == new
\* cat >> file of the storage-provider block.
CatAppend(old) == [old EXCEPT !.blocks = @ + 1]

\* A container was created from the image and its entrypoint starts.
InitBox ==
  /\ InitHost
  /\ lsofOk = TRUE
  /\ SOUL_MD \in SoulTemplates
  /\ render = NoRender
  /\ web = NoWeb
  /\ ENV_UNSET = {}
  /\ \E env \in Environments :
       box = [pc |-> "mkdir", env |-> env, dirs |-> FALSE, soul |-> NoText,
              heartbeat |-> NoText, skills |-> {}, config |-> NoBoxConfig,
              starts |-> 1, edited |-> FALSE, first |-> NoSnapshot]

\* set -e: a command of the entrypoint exited non-zero, the container stops.
BoxExit == box' = [box EXCEPT !.pc = "exited"]

\* mkdir -p of the skill directories and of /zeroclaw-data/.zeroclaw.
BoxMkdir ==
  /\ box.pc = "mkdir"
  /\ \E ok \in BOOLEAN :
       IF ok THEN box' = [box EXCEPT !.pc = "cp", !.dirs = TRUE] ELSE BoxExit
  /\ UNCHANGED <<provisionVars, render, web>>

\* cp of SOUL.md, HEARTBEAT.md and the four SKILL.md out of /nemu-workspace:
\* each replaces the file a previous start left.
BoxCopy ==
  /\ box.pc = "cp"
  /\ \E ok \in BOOLEAN :
       IF ok
         THEN box' = [box EXCEPT !.pc = "sed",
                                 !.soul = Cp(SoulText(SOUL_MD)),
                                 !.heartbeat = Cp(HeartbeatText),
                                 !.skills = Cp(SKILL_MD)]
         ELSE BoxExit
  /\ UNCHANGED <<provisionVars, render, web>>

\* sed -i with the ten expressions on SOUL.md and HEARTBEAT.md: no file is
\* touched when an expression does not parse.
BoxSed ==
  /\ box.pc = "sed"
  /\ LET val == EntrypointValues(box.env)
         soul == SedScript(box.soul, EntrypointSedChain, val)
         heartbeat == SedScript(box.heartbeat, EntrypointSedChain, val)
     IN  IF soul.ok
           THEN box' = [box EXCEPT !.pc = "config", !.soul = soul.text,
                                   !.heartbeat = heartbeat.text]
           ELSE BoxExit
  /\ UNCHANGED <<provisionVars, render, web>>

\* GATEWAY_PORT and MEMORY_BACKEND, then cat > "$CONFIG" with the heredoc.
BoxConfig ==
  /\ box.pc = "config"
  /\ \E ok \in BOOLEAN :
       IF ok
         THEN box' = [box EXCEPT
                        !.pc = "append",
                        !.config = CatTruncate(box.config,
                                     [st |-> "written",
                                      port |-> Default(box.env.PORT, "3000"),
                                      backend |->
                                        MemoryBackend(box.env.NEON_DATABASE_URL),
                                      blocks |-> 0])]
         ELSE BoxExit
  /\ UNCHANGED <<provisionVars, render, web>>

\* if [ -n "${NEON_DATABASE_URL:-}" ]; then cat >> "$CONFIG" the
\* [storage.provider.config] block.
BoxAppend ==
  /\ box.pc = "append"
  /\ IF Default(box.env.NEON_DATABASE_URL, "") # ""
       THEN \E ok \in BOOLEAN :
              IF ok
                THEN box' = [box EXCEPT !.pc = "exec",
                                        !.config = CatAppend(@)]
                ELSE BoxExit
       ELSE box' = [box EXCEPT !.pc = "exec"]
  /\ UNCHANGED <<provisionVars, render, web>>

\* exec zeroclaw gateway. first remembers the files of the first start that
\* got this far.
BoxExec ==
  /\ box.pc = "exec"
  /\ box' = [box EXCEPT !.pc = "serving",
                        !.first = IF @ = NoSnapshot THEN Snapshot(box) ELSE @]
  /\ UNCHANGED <<provisionVars, render, web>>

\* The container is started again (crash, redeploy of the same container)
\* with the same environment: the entrypoint runs from the top on the data
\* directory as the last start left it, or as the agent or an operator has
\* edited it since (texts changed, a skill file rendered, a second storage
\* block in the config).
BoxRestart ==
  /\ box.pc \in {"serving", "exited"}
  /\ box.starts < MaxBoxStarts
  /\ \E edit \in BOOLEAN :
       box' = IF edit
                THEN [box EXCEPT !.pc = "mkdir", !.starts = @ + 1,
                                 !.edited = TRUE,
                                 !.soul = <<"edited">>,
                                 !.heartbeat = <<"edited">>,
                                 !.skills = SKILL_MD \ {"STORE_NAME"},
                                 !.config = [@ EXCEPT !.st = "edited",
                                                      !.blocks = 2]]
                ELSE [box EXCEPT !.pc = "mkdir", !.starts = @ + 1]
  /\ UNCHANGED <<provisionVars, render, web>>

NextBox ==
  \/ BoxMkdir
  \/ BoxCopy
  \/ BoxSed
  \/ BoxConfig
  \/ BoxAppend
  \/ BoxExec
  \/ BoxRestart

SpecBox == InitBox /\ [][NextBox]_vars

\* ------------------------------------------------------------- node agent
\* A query parameter or body field the request does not carry.
undefined == "undefined"
\* JavaScript truthiness of a string or undefined.
Truthy(v) == v \notin {undefined, ""}
\* An || that prefers its right operand.
OrRight(a, b) == IF Truthy(b) THEN b ELSE a
\* a || b.
Or(a, b) == IF Truthy(a) THEN a ELSE b

\* The two server.mjs of the repository.
Versions == {1, 2}

\* The requests a client sends: the verification GET with its hub.* query
\* parameters, and the POST with a JSON object of strings.
Requests ==
  [route : {"GET /whatsapp"},
   mode : {undefined, "subscribe", "unsubscribe"},
   token : {undefined, "t"},
   challenge : {undefined, "c1"},
   from : {undefined}, text : {undefined}, message : {undefined}]
  \cup
  [route : {"POST /webhook"},
   mode : {undefined}, token : {undefined}, challenge : {undefined},
   from : {undefined, "62811"},
   text : {undefined, "", "text"},
   message : {undefined, "", "message"}]

\* No request was received yet.
NoRequest ==
  [route |-> "none", mode |-> undefined, token |-> undefined,
   challenge |-> undefined, from |-> undefined, text |-> undefined,
   message |-> undefined]
\* A promise of askMinimax: pending on the fetch, resolved, or rejected.
NoPromise == [st |-> "none", value |-> ""]

\* The server listens: one of the two versions, with or without an API key.
InitAgent ==
  /\ InitHost
  /\ lsofOk = TRUE
  /\ SOUL_MD = SoulWorkspace
  /\ render = NoRender
  /\ box = NoBox
  /\ ENV_UNSET = {}
  /\ \E v \in Versions, key \in {"", "sk-key"} :
       web = [pc |-> "idle", version |-> v, MINIMAX_KEY |-> key,
              req |-> NoRequest, res |-> <<>>,
              calls |-> 0, fetches |-> 0, asked |-> "", promise |-> NoPromise]

\* res.send(body): status 200; nothing is written for an undefined body.
Send(body) ==
  [status |-> 200, body |-> [text |-> IF body = undefined THEN "" ELSE body]]
\* res.sendStatus(code).
SendStatus(code) == [status |-> code, body |-> [text |-> "Forbidden"]]
\* res.status(code).json(body) and res.json(body).
Json(code, body) == [status |-> code, body |-> body]

\* A mode test that asks only whether hub.mode is there.
ModePresent(mode) == mode # undefined
\* req.query["hub.mode"] === "subscribe".
Subscribe(mode) == mode = "subscribe"

\* An HTTP request arrives and is routed to its handler.
Receive ==
  /\ web.pc \in {"idle", "done"}
  /\ \E q \in Requests :
       web' = [web EXCEPT !.pc = "routed", !.req = q, !.res = <<>>,
                          !.calls = 0, !.fetches = 0, !.asked = "",
                          !.promise = NoPromise]
  /\ UNCHANGED <<provisionVars, render, box>>

\* app.get("/whatsapp"): the verify token is read by the second version and
\* compared by neither.
GetWhatsapp ==
  /\ web.pc = "routed"
  /\ web.req.route = "GET /whatsapp"
  /\ web' = [web EXCEPT
               !.pc = "done",
               !.res = Append(@, IF Subscribe(web.req.mode)
                                   THEN Send(web.req.challenge)
                                   ELSE SendStatus(403))]
  /\ UNCHANGED <<provisionVars, render, box>>

\* askMinimax up to its first await: the first version answers by itself
\* when no key is configured, otherwise the fetch to the model API is sent.
askMinimax(w, msg) ==
  IF w.version = 1 /\ ~Truthy(w.MINIMAX_KEY)
    THEN [w EXCEPT !.calls = @ + 1, !.asked = msg,
                   !.promise = [st |-> "resolved",
                                value |-> "Maaf kak, agent sedang offline"]]
    ELSE [w EXCEPT !.calls = @ + 1, !.asked = msg, !.fetches = @ + 1,
                   !.promise = [st |-> "pending", value |-> ""]]

\* app.post("/webhook") up to its await.
PostWebhook ==
  /\ web.pc = "routed"
  /\ web.req.route = "POST /webhook"
  /\ LET msg == Or(Or(web.req.text, web.req.message), "")
     IN  IF ~Truthy(msg)
           THEN web' = [web EXCEPT
                          !.pc = "done",
                          !.res = Append(@, Json(400, [error |-> "No message"]))]
           ELSE web' = [askMinimax(web, msg) EXCEPT !.pc = "await"]
  /\ UNCHANGED <<provisionVars, render, box>>

\* The fetch settles: a completion, a body without choices (the fallback
\* text), a network error, or a body res.json() cannot parse.
FetchSettles ==
  /\ web.pc = "await"
  /\ web.promise.st = "pending"
  /\ \E out \in {"content", "nochoices", "neterror", "badjson"} :
       web' = [web EXCEPT !.promise =
                 CASE out = "content" -> [st |-> "resolved", value |-> "Halo kak"]
                   [] out = "nochoices" ->
                        [st |-> "resolved",
                         value |-> "Maaf kak, ada kendala teknis"]
                   [] OTHER -> [st |-> "rejected", value |-> out]]
  /\ UNCHANGED <<provisionVars, render, box>>

\* app.post("/webhook") after the await: res.json in the try, or the catch.
WebhookReply ==
  /\ web.pc = "await"
  /\ web.promise.st \in {"resolved", "rejected"}
  /\ web' = [web EXCEPT
               !.pc = "done",
               !.res = Append(@,
                  IF web.promise.st = "resolved"
                    THEN Json(200, [status |-> "ok", reply |-> web.promise.value,
                                    from |-> web.req.from,
                                    store |-> "Toko Demo Nemu"])
                    ELSE Json(500, [error |-> "Agent error"]))]
  /\ UNCHANGED <<provisionVars, render, box>>

NextAgent ==
  \/ Receive
  \/ GetWhatsapp
  \/ PostWebhook
  \/ FetchSettles
  \/ WebhookReply

SpecAgent == InitAgent /\ [][NextAgent]_vars

\* ================================================================== claims
Stages ==
  {"fetch", "probe", "mkdir", "skills", "soul", "heartbeat", "config",
   "install", "unit", "reload", "enable", "start", "report"}

\* The commands run r has logged, as a set.
Logged(r) == {log[r][i] : i \in 1..Len(log[r])}

\* The persona, the heartbeat and the config of run r were all rendered.
RenderingDone(r) ==
  /\ {"soul", "heartbeat", "config"} \subseteq Logged(r)
  /\ failedAt[r] \notin {"soul", "heartbeat", "config"}

C1_Order ==
  <<"fetch", "probe", "mkdir", "skills", "soul", "heartbeat", "config",
    "install", "unit", "reload", "enable", "start", "report">>

StageIndex(k) == CHOOSE i \in 1..Len(C1_Order) : C1_Order[i] = k

\* C2: a run in which command k failed is in Failed and has performed no effect
\* of any command after k (no later workspace write, unit write, start, PATCH).
\* On the host, while that run is the only one so far, the workspace, the
\* unit, the service and the registry show none of those effects either.
C2_FailureStopsPipeline ==
  \A r \in Runs :
    (failedAt[r] \in Stages /\ pc[r] # "aborted") =>
      /\ pc[r] = "failed"
      /\ \A k \in Logged(r) : StageIndex(k) <= StageIndex(failedAt[r])
      /\ started = 1 =>
           LET s == SELLER_ID[r]
               i == StageIndex(failedAt[r])
           IN /\ i <= StageIndex("mkdir") => fs[s] = NoWorkspace
              /\ i <= StageIndex("skills") => ~fs[s].skills
              /\ i < StageIndex("soul") => fs[s].soul = NoFile
              /\ i < StageIndex("heartbeat") => fs[s].heartbeat = NoFile
              /\ i < StageIndex("config") => fs[s].config = NoConfig
              /\ i <= StageIndex("unit") => unit[s] = "absent"
              /\ i <= StageIndex("start") => svc[s] = Inactive
              /\ i <= StageIndex("report") => reported[s] = NoReport

\* C2 witness: a run failed at systemctl start after it wrote the workspace
\* and declared the unit; the service was not started and nothing was reported.
C2_Witness ==
  \E r \in Runs :
    /\ pc[r] = "failed"
    /\ failedAt[r] = "start"
    /\ unit[SELLER_ID[r]] = "enabled"
    /\ fs[SELLER_ID[r]].config.st = "rendered"
    /\ svc[SELLER_ID[r]].state = "inactive"
    /\ reported[SELLER_ID[r]] = NoReport

\* C3: a seller whose registry record lacks storeSlug never gets a workspace
\* directory, a service unit, a started service or a status report.
C3_NoEffectWithoutSlug ==
  \A s \in Sellers :
    "storeSlug" \notin DOMAIN Registry[s] =>
      /\ fs[s] = NoWorkspace
      /\ unit[s] = "absent"
      /\ svc[s] = Inactive
      /\ reported[s] = NoReport

\* C4: when the pipeline is run a second time in succession for a seller whose
\* first run reached Done and whose service is still running, no command of
\* the second run that succeeds changes the seller's workspace (config and its
\* gateway port included).
C4_SecondRunKeepsWorkspace ==
  [][\A r \in Runs :
       ( /\ Running(r)
         /\ lastRun = [seller |-> SELLER_ID[r], outcome |-> "done"]
         /\ svc[SELLER_ID[r]].state = "active"
         /\ pc'[r] = NextStep(pc[r]) )
       => \A s \in Sellers : s = SELLER_ID[r] => fs'[s] = fs[s]]_vars

\* C5: the gateway ports of two distinct running agents differ (stated for
\* the hosts whose lsof works, so that the probe itself is not at fault).
C5_RunningAgentsHoldDistinctPorts ==
  \A a, b \in Sellers :
    (lsofOk /\ a # b /\ svc[a].state = "active" /\ svc[b].state = "active")
      => svc[a].port # svc[b].port

\* C6: an allocation that follows another one, no port having been freed since,
\* does not return the port the earlier one returned (stated for the hosts
\* whose lsof works).
C6_SecondAllocationDiffers ==
  [][\A r \in Runs :
       (lsofOk /\ pc[r] = "probe" /\ pc'[r] = "mkdir" /\ lastAlloc # 0)
         => GATEWAY_PORT[r] # lastAlloc]_vars

\* C7: the allocator skips a port only when it has a listener, the port it
\* returns is at or above the base and has no listener when probed, and the
\* config is rendered with that port.
C7_FirstPortWithoutListener ==
  [][\A r \in Runs :
       /\ GATEWAY_PORT'[r] = GATEWAY_PORT[r] + 1 => Listening(GATEWAY_PORT[r])
       /\ (pc[r] = "probe" /\ pc'[r] = "mkdir") =>
             /\ GATEWAY_PORT[r] >= GATEWAY_PORT_START
             /\ ~Listening(GATEWAY_PORT[r])
       /\ (pc[r] = "config" /\ pc'[r] = "install") =>
             \A s \in Sellers :
               s = SELLER_ID[r] => fs'[s].config.port = GATEWAY_PORT[r]]_vars

\* C8: the port an allocation returns lies in [basePort, basePort + N).
C8_PortWithinRange ==
  \A r \in Runs :
    "probe" \in Logged(r) =>
      /\ GATEWAY_PORT[r] >= GATEWAY_PORT_START
      /\ GATEWAY_PORT[r] < GATEWAY_PORT_START + RangeN

\* C9: a run that reaches Done after the previous run for the same seller
\* stopped (failed or aborted), on a host where no other seller was
\* provisioned, ends in the state one run from a clean host ends in: config
\* and report carry the base port and a running instance was started with it.
C9_RetryEndsLikeCleanRun ==
  [][\A r \in Runs :
       ( /\ pc[r] = "report" /\ pc'[r] = "done"
         /\ lastRun = [seller |-> SELLER_ID[r], outcome |-> "stopped"]
         /\ \A o \in Sellers \ {SELLER_ID[r]} :
              fs[o] = NoWorkspace /\ svc[o] = Inactive )
       => \A s \in Sellers :
            s = SELLER_ID[r] =>
              /\ fs'[s].config.port = GATEWAY_PORT_START
              /\ reported'[s].agentPort = GATEWAY_PORT_START
              /\ svc'[s].state = "active" => svc'[s].port = GATEWAY_PORT_START]_vars

\* C10: when systemctl start succeeds for a seller, the service is running an
\* instance launched after the config on disk was written, whether or not the
\* service was running before.
C10_StartLaunchesFreshInstance ==
  [][\A r \in Runs :
       (pc[r] = "start" /\ pc'[r] = "report") =>
         \A s \in Sellers :
           s = SELLER_ID[r] => svc'[s].state = "active" /\ ~svc'[s].stale]_vars

\* The unit files that declare a service for seller s.
DeclaredFor(s) == {u \in unitFiles : u.seller = s}

\* C11: the service name depends on the seller id alone, and after any number
\* of runs (done, failed or aborted) there is at most one unit file declaring
\* a service for a seller, present exactly when a run for that seller got past
\* the unit-writing command: a re-run overwrites the file, it adds none.
C11_OneDeclarationPerSeller ==
  /\ \A s \in Sellers :
       /\ Cardinality(DeclaredFor(s)) <= 1
       /\ unit[s] # "absent" <=> DeclaredFor(s) # {}
  /\ \A u, v \in unitFiles : u.name = v.name <=> u.seller = v.seller
  /\ \A r \in Runs :
       (SELLER_ID[r] \in Sellers /\ "unit" \in Logged(r))
         => [name |-> ServiceName(r), seller |-> SELLER_ID[r]] \in unitFiles

\* C11 witness: a second run for the same seller, holding another port than
\* the first, has written the unit file again, and one file is there.
C11_Witness ==
  \E r \in Runs :
    /\ Running(r)
    /\ lastRun = [seller |-> SELLER_ID[r], outcome |-> "done"]
    /\ "unit" \in Logged(r)
    /\ GATEWAY_PORT[r] # GATEWAY_PORT_START
    /\ Cardinality(DeclaredFor(SELLER_ID[r])) = 1

\* C12: in every state, overlapping runs for one seller included, at most one
\* agent process runs under a service name, and one runs exactly when systemd
\* has the service active.
C12_OneInstancePerService ==
  \A s \in Sellers :
    /\ svc[s].procs <= 1
    /\ svc[s].state = "active" <=> svc[s].procs = 1

\* C12 witness: two overlapping runs for the same seller have both executed
\* systemctl start, and one agent process runs.
C12_Witness ==
  \E a, b \in Runs :
    /\ a # b
    /\ SELLER_ID[a] = SELLER_ID[b]
    /\ "start" \in Logged(a) /\ "start" \in Logged(b)
    /\ Running(a) /\ Running(b)
    /\ svc[SELLER_ID[a]].procs = 1

C14_NoAgentAfterFailedRun ==
  \A r \in Runs :
    (started = 1 /\ pc[r] = "failed" /\ SELLER_ID[r] \in Sellers)
      => svc[SELLER_ID[r]].state # "active"

\* C14 amended: a run that failed at any command up to and including systemctl
\* start has started no agent (its start command never succeeded, and when it
\* is the only run so far the seller's service is not running); only a run
\* whose start had succeeded can fail at the status report, and it leaves the
\* service running.
C14_NoAgentUnlessStartSucceeded ==
  \A r \in Runs :
    /\ (failedAt[r] \in Stages \ {"report"} /\ pc[r] # "aborted") =>
         /\ pc[r] = "failed"
         /\ "start" \notin Logged(r)
         /\ started = 1 => svc[SELLER_ID[r]] = Inactive
    /\ (failedAt[r] = "report" /\ pc[r] = "failed") => "start" \in Logged(r)

\* C14 witness: a run for one seller failed at systemctl enable and that seller
\* has no agent, while the agent of another seller, whose run had failed only
\* at the status report, is running and unknown to the registry.
C14_Witness ==
  \E r \in Runs, o \in Sellers :
    /\ pc[r] = "failed"
    /\ failedAt[r] = "enable"
    /\ o # SELLER_ID[r]
    /\ svc[SELLER_ID[r]] = Inactive
    /\ svc[o].state = "active" /\ svc[o].bound
    /\ reported[o] = NoReport

\* C15: when the status PATCH fails, the run ends failed, the workspace, the
\* unit file, the declared service and the running instance are left exactly
\* as they were, the registry received nothing, and the run has sent that one
\* PATCH only (no run ever sends a second one).
C15_ReportFailureNoRollback ==
  [][\A r \in Runs :
       /\ patches[r] <= 1
       /\ (patches'[r] = patches[r] + 1 /\ failedAt'[r] = "report") =>
            /\ pc'[r] = "failed"
            /\ patches'[r] = 1
            /\ fs' = fs
            /\ unit' = unit /\ unitFiles' = unitFiles
            /\ svc' = svc
            /\ reported' = reported
       /\ (pc[r] = "failed" /\ pc'[r] = "failed") => patches'[r] <= patches[r]]_vars

\* C15 witness: a run failed at the status report after one PATCH; its
\* workspace, its unit and the agent it started are in place.
C15_Witness ==
  \E r \in Runs :
    /\ pc[r] = "failed"
    /\ failedAt[r] = "report"
    /\ patches[r] = 1
    /\ fs[SELLER_ID[r]].config.st = "rendered"
    /\ unit[SELLER_ID[r]] = "enabled"
    /\ svc[SELLER_ID[r]].procs = 1
    /\ reported[SELLER_ID[r]] = NoReport

\* The commands after the port allocation.
AfterProbe == Stages \ {"fetch", "probe"}

\* C16: a run that reaches Done has sent exactly one PATCH, after its
\* systemctl start succeeded; the registry then holds status active and, as
\* agentPort, the port the run allocated, which is the port the run wrote into
\* config.toml (the variable keeps its value from the allocation to the end),
\* and with one run at a time it is the port in the config on disk.
C16_OneReportWithAllocatedPort ==
  [][\A r \in Runs :
       /\ (pc[r] = "probe" /\ pc'[r] = "mkdir") => lastAlloc' = GATEWAY_PORT'[r]
       /\ (pc[r] \in AfterProbe /\ pc'[r] # "fetch") =>
            GATEWAY_PORT'[r] = GATEWAY_PORT[r]
       /\ (pc[r] = "config" /\ pc'[r] = "install") =>
            \A s \in Sellers :
              s = SELLER_ID[r] => fs'[s].config.port = GATEWAY_PORT[r]
       /\ (pc[r] = "report" /\ pc'[r] = "done") =>
            /\ patches'[r] = 1
            /\ "start" \in Logged(r)
            /\ \A s \in Sellers :
                 s = SELLER_ID[r] =>
                   /\ reported'[s].agentStatus = "active"
                   /\ reported'[s].agentPort = GATEWAY_PORT[r]
                   /\ fs'[s].config.port = GATEWAY_PORT[r]]_vars

\* C16 witness: a run reached Done with a port other than the base port; the
\* registry and the config both carry it.
C16_Witness ==
  \E r \in Runs :
    /\ pc[r] = "done"
    /\ patches[r] = 1
    /\ GATEWAY_PORT[r] = GATEWAY_PORT_START + 1
    /\ reported[SELLER_ID[r]] = [agentStatus |-> "active",
                                  agentPort |-> GATEWAY_PORT_START + 1]
    /\ fs[SELLER_ID[r]].config.port = GATEWAY_PORT_START + 1

\* C17: a run gets past the port allocation only if the probe tool worked, and
\* past the fetch only if the registry record had the fields the run uses.
C17_NoSwallowedFailure ==
  \A r \in Runs :
    /\ "probe" \in Logged(r) => lsofOk
    /\ "fetch" \in Logged(r) => STORE_NAME[r] # "null" /\ STORE_SLUG[r] # "null"

\* C18: when the registry read fails, the run is failed at the fetch having
\* done nothing: no command of it took effect, it sent no PATCH, the step
\* changed nothing on the host, and when it is the only run so far the seller
\* has no workspace, no unit file, no service and no status in the registry.
C18_FetchFailureNoEffects ==
  [][\A r \in Runs :
       (pc[r] = "fetch" /\ failedAt'[r] = "fetch" /\ pc'[r] # "aborted") =>
         /\ pc'[r] = "failed"
         /\ log'[r] = <<>>
         /\ patches'[r] = 0
         /\ UNCHANGED hostVars
         /\ started = 1 =>
              \A s \in Sellers :
                s = SELLER_ID[r] =>
                  /\ fs'[s] = NoWorkspace
                  /\ unit'[s] = "absent" /\ DeclaredFor(s) = {}
                  /\ svc'[s] = Inactive
                  /\ reported'[s] = NoReport]_vars

\* C18 witness: the fetch of a run failed; the run is failed and its seller has
\* no workspace, no unit, no service and no status.
C18_Witness ==
  \E r \in Runs :
    /\ pc[r] = "failed"
    /\ failedAt[r] = "fetch"
    /\ log[r] = <<>>
    /\ patches[r] = 0
    /\ fs[SELLER_ID[r]] = NoWorkspace
    /\ DeclaredFor(SELLER_ID[r]) = {}
    /\ svc[SELLER_ID[r]] = Inactive
    /\ reported[SELLER_ID[r]] = NoReport

\* A run that is over.
Ended(r) == pc[r] \in {"done", "failed", "aborted"}

\* C19: every run that has started its registry read eventually ends (Done or
\* Failed, or aborted by the operator), and so does every run that has started
\* its status report, whatever the registry does.
C19_RunTerminates ==
  \A r \in Runs :
    /\ (pc[r] = "fetch") ~> Ended(r)
    /\ (pc[r] = "report") ~> Ended(r)

\* C20: a persona or heartbeat file the provisioner has rendered into a
\* workspace contains no placeholder-shaped token.
C20_NoPlaceholderLeft ==
  \A s \in Sellers :
    /\ fs[s].soul.st = "rendered" => fs[s].soul.left = {}
    /\ fs[s].heartbeat.st = "rendered" => fs[s].heartbeat.left = {}

\* C21: a run whose rendering left a placeholder-shaped token in the persona
\* or the heartbeat file is failed at that rendering command, and has gone on
\* to no later command (config, unit file, service start, status report).
C21_LeftoverTokenFailsRun ==
  \A r \in Runs :
    ( /\ started = 1
      /\ SELLER_ID[r] \in Sellers
      /\ \/ fs[SELLER_ID[r]].soul.left # {}
         \/ fs[SELLER_ID[r]].heartbeat.left # {} )
    => /\ pc[r] = "failed"
       /\ failedAt[r] \in {"soul", "heartbeat"}
       /\ Logged(r) \cap {"config", "install", "unit", "reload", "enable",
                          "start", "report"} = {}

\* C22: the output of the sed is the output the same expressions give when
\* written in the opposite order.
C22_OrderIndependent ==
  render.st = "done" =>
    render.out = SedScript(render.tpl, Reverse(SedChainOf(render.script)),
                           render.val)

\* The template with every mapped placeholder replaced by exactly its value.
RECURSIVE Literal(_, _)
Literal(text, val) ==
  IF text = <<>> THEN <<>>
  ELSE (IF \E n \in DOMAIN val : Head(text) = Ph(n)
          THEN val[CHOOSE n \in DOMAIN val : Head(text) = Ph(n)]
          ELSE <<Head(text)>>)
         \o Literal(Tail(text), val)

\* C23: for every template and values, sed succeeds and its output is the
\* template with each mapped placeholder replaced by its value, character for
\* character.
C23_LiteralSubstitution ==
  render.st = "done" =>
    /\ render.out.ok
    /\ render.out.text = Literal(render.tpl, render.val)

\* C24: a command of a run for one seller leaves every other seller's
\* workspace, unit file, service and registry status as they are, under any
\* interleaving of two runs (daemon-reload makes systemd read every unit file
\* written so far; it changes none).
C24_OtherSellersUntouched ==
  [][\A r \in Runs, b \in Sellers :
       ( /\ SELLER_ID[r] # b
         /\ pc'[r] # pc[r] \/ GATEWAY_PORT'[r] # GATEWAY_PORT[r] )
       => /\ fs'[b] = fs[b]
          /\ {u \in unitFiles' : u.seller = b} = DeclaredFor(b)
          /\ svc'[b] = svc[b]
          /\ reported'[b] = reported[b]
          /\ \/ unit'[b] = unit[b]
             \/ pc[r] = "reload" /\ unit[b] = "written" /\ unit'[b] = "loaded"]_vars

\* C24 witness: two runs for different sellers are under way at the same
\* time, each has rendered its config, written its unit and started its
\* service.
C24_Witness ==
  \E a, b \in Runs :
    /\ SELLER_ID[a] \in Sellers /\ SELLER_ID[b] \in Sellers
    /\ SELLER_ID[a] # SELLER_ID[b]
    /\ Running(a) /\ Running(b)
    /\ "start" \in Logged(a) /\ "start" \in Logged(b)
    /\ \A s \in {SELLER_ID[a], SELLER_ID[b]} :
         /\ fs[s].config.st = "rendered"
         /\ DeclaredFor(s) # {}
         /\ svc[s].state = "active"

\* C25: a started service whose process has exited runs again eventually, one
\* process, without a provisioning run taking part; whenever a service that
\* waits for its restart is launched, the agent reads the config.toml of the
\* seller's own workspace as it is then.
C25_CrashedServiceRestarts ==
  /\ \A s \in Sellers :
       (svc[s].state # "inactive" /\ svc[s].procs = 0)
         ~> (svc[s].state = "active" /\ svc[s].procs = 1)
  /\ [][\A s \in Sellers :
          (svc[s].procs = 0 /\ svc'[s].procs = 1 /\ svc[s].state # "inactive")
            => /\ svc[s].state = "auto-restart"
               /\ svc'[s].state = "active"
               /\ svc'[s].port = IF fs[s].config.st = "rendered"
                                   THEN fs[s].config.port ELSE 0]_vars

\* C25 witness: after the only run so far reached Done, the agent it started
\* crashed while listening, and it runs and listens again on the port of its
\* config.
C25_Witness ==
  \E s \in Sellers :
    /\ started = 1
    /\ pc["r1"] = "done"
    /\ SELLER_ID["r1"] = s
    /\ lastAlloc = 0
    /\ svc[s].state = "active" /\ svc[s].bound
    /\ svc[s].port = fs[s].config.port

\* C26: the config the entrypoint has generated selects backend postgres
\* exactly when NEON_DATABASE_URL is set to a non-empty value and sqlite
\* otherwise, and it holds the storage-provider block exactly when the
\* backend is postgres.
C26_BackendFollowsDatabaseUrl ==
  box.pc \in {"exec", "serving"} =>
    /\ box.config.st = "written"
    /\ box.config.backend \in {"postgres", "sqlite"}
    /\ box.config.backend = "postgres"
         <=> box.env.NEON_DATABASE_URL \notin {"unset", ""}
    /\ box.config.blocks = IF box.config.backend = "postgres" THEN 1 ELSE 0

\* C26 witness: a container whose NEON_DATABASE_URL is set but empty serves
\* with backend sqlite and no storage block.
C26_Witness ==
  /\ box.pc = "serving"
  /\ box.env.NEON_DATABASE_URL = ""
  /\ box.config.backend = "sqlite"
  /\ box.config.blocks = 0

\* C27: a skill file of a workspace, the provisioner's or the container's,
\* always holds the text of its source, placeholders included, and no step
\* after the copy (the substitutions into the persona, the heartbeat and the
\* config among them) changes it.
C27_SkillsVerbatim ==
  /\ [](/\ \A s \in Sellers : fs[s].skills => fs[s].skillFiles = SKILL_MD
        /\ box.pc \in {"sed", "config", "append", "exec", "serving"}
             => box.skills = SKILL_MD)
  /\ [][/\ \A s \in Sellers :
             fs[s].skills => fs'[s].skillFiles = fs[s].skillFiles
        /\ box.pc \in {"sed", "config", "append", "exec"}
             => box'.skills = box.skills]_vars

\* C27 witness: a workspace whose persona and heartbeat were rendered and
\* whose config was written, with {{STORE_NAME}} gone from the persona and
\* still in the skill files.
C27_Witness ==
  \E s \in Sellers :
    /\ fs[s].soul.st = "rendered"
    /\ fs[s].heartbeat.st = "rendered"
    /\ fs[s].config.st = "rendered"
    /\ "STORE_NAME" \notin fs[s].soul.left
    /\ "STORE_NAME" \in fs[s].skillFiles
    /\ fs[s].skillFiles = SKILL_MD

\* C28: an optional field the registry response does not hold (category,
\* walletAddress) is substituted into the rendered persona as the empty text.
C28_AbsentOptionalIsEmpty ==
  \A s \in Sellers :
    fs[s].soul.st = "rendered" =>
      /\ "category" \notin DOMAIN Registry[s] => fs[s].soul.category = ""
      /\ "walletAddress" \notin DOMAIN Registry[s] => fs[s].soul.wallet = ""

\* C29 as stated: GET /whatsapp echoes the challenge whenever a hub.mode
\* query parameter is present and answers 403 otherwise.
C29_EchoWhenModePresent ==
  (web.pc = "done" /\ web.req.route = "GET /whatsapp") =>
    /\ Len(web.res) = 1
    /\ web.res[1] = IF web.req.mode # undefined
                      THEN Send(web.req.challenge)
                      ELSE SendStatus(403)

\* C29 amended: GET /whatsapp echoes the challenge with status 200 exactly
\* when hub.mode is "subscribe" and answers 403 otherwise, whatever the
\* verify token; every request gets exactly one of the two responses.
C29_EchoWhenSubscribe ==
  /\ Len(web.res) <= 1
  /\ (web.pc = "done" /\ web.req.route = "GET /whatsapp") =>
       /\ Len(web.res) = 1
       /\ web.res[1] = IF web.req.mode = "subscribe"
                         THEN Send(web.req.challenge)
                         ELSE SendStatus(403)
       /\ web.calls = 0

\* C29 witness: a request with hub.mode present but not "subscribe" was
\* answered 403.
C29_Witness ==
  /\ web.pc = "done"
  /\ web.req.route = "GET /whatsapp"
  /\ web.req.mode = "unsubscribe"
  /\ web.req.challenge = "c1"
  /\ Len(web.res) = 1
  /\ web.res[1].status = 403

C31_ReprovisionPortsAgree ==
  [][\A r \in Runs :
       LET s == SELLER_ID[r]
       IN  (/\ pc[r] = "report"
            /\ pc'[r] = "done"
            /\ reported[s].agentStatus = "active"
            /\ svc'[s].state = "active") =>
             /\ reported'[s].agentPort = fs'[s].config.port
             /\ svc'[s].port = fs'[s].config.port]_vars

\* C32: with a required environment variable unset, no run creates or
\* changes anything on the host: no workspace directory or file, no service
\* unit, no service, no status report.
C32_UnsetEnvNoEffects ==
  ENV_UNSET # {} =>
    \A s \in Sellers :
      /\ fs[s] = NoWorkspace
      /\ unit[s] = "absent"
      /\ svc[s] = Inactive
      /\ reported[s] = NoReport

\* C33: whenever a start of the container gets to run the agent, the
\* persona, the heartbeat, the skill files and the config are those of the
\* first start that did, whatever the data directory held when the start
\* began; and the config never holds the storage-provider block twice.
C33_RestartRendersAlike ==
  box.pc \in {"exec", "serving"} =>
    /\ box.config.blocks <= 1
    /\ box.first # NoSnapshot => Snapshot(box) = box.first

\* C33 witness: a third start serves with the files of the first, with a
\* storage block, after the data directory was edited in between.
C33_Witness ==
  /\ box.pc = "serving"
  /\ box.starts = 3
  /\ box.edited
  /\ box.first # NoSnapshot
  /\ Snapshot(box) = box.first
  /\ box.config.blocks = 1

====
